---- MODULE Spec2Model ----
(***************************************************************************)
(* The setupnetwork NRI plugin (plugins/setupnetwork/plugin.go).           *)
(*                                                                         *)
(* The file holds two builds of the plugin.  The "static" build            *)
(* (lines 17-199) resolves a pod's QoS class through the process-wide      *)
(* table qosbandwidth; the "embedded" build (lines 217-415) resolves it    *)
(* through the QoS table embedded in each CNI config's NetworkConf.        *)
(* The variable variant says which build is running.                       *)
(*                                                                         *)
(* PreSetupNetwork is modelled statement group by statement group: one     *)
(* step for the prologue, one step per iteration of the loop over          *)
(* cniconfigs, one step for the return.  Every call has its own frame      *)
(* (the locals of the Go function); calls of different pod sandboxes       *)
(* interleave, as the goroutines serving the requests do.                  *)
(***************************************************************************)
EXTENDS Integers, Sequences, FiniteSets

VARIABLES
    variant,     \* "static" or "embedded": which build of plugin.go runs
    cfg,         \* the package variable cfg (its field CfgParam1)
    cniconfigs,  \* the []*api.CNIConfig the runtime passes to PreSetupNetwork
    encfail,     \* indices of cniconfigs at which json.Marshal returns an error
    pod,         \* pod[s]: the *api.PodSandbox of sandbox s
    frame        \* frame[s]: the locals of sandbox s's PreSetupNetwork call

vars == <<variant, cfg, cniconfigs, encfail, pod, frame>>

----------------------------------------------------------------------------
(* Bounds of the model.                                                    *)

\* Longest list of CNI configs handed to one PreSetupNetwork call.
MaxConfigs == 3

----------------------------------------------------------------------------
(* Constants of the program.                                               *)

QoSResourceNet == "net"

Loopback == "cni-loopback"

\* cni.BandWidth: four uint64 fields.
BW(ir, ib, er, eb) ==
    [IngressRate |-> ir, IngressBurst |-> ib, EgressRate |-> er, EgressBurst |-> eb]

\* The zero value of cni.BandWidth.
ZeroBandwidth == BW(0, 0, 0, 0)

\* Mutant of qosbandwidth: the rows of "normal" and "fast" exchanged.
qosbandwidthSwapped ==
    [slow   |-> BW(100000, 150000, 0, 0),
     normal |-> BW(1000000, 1500000, 0, 0),
     fast   |-> BW(500000, 550000, 0, 0)]

\* var qosbandwidth = map[string]cni.BandWidth{...}
qosbandwidth ==
    [slow   |-> BW(100000, 150000, 0, 0),
     normal |-> BW(500000, 550000, 0, 0),
     fast   |-> BW(1000000, 1500000, 0, 0)]

\* The literal the static build falls back to when qosbandwidth[qos] misses.
DefaultBandwidth == BW(450000, 1000000, 600000, 800000)

----------------------------------------------------------------------------
(* encoding/json on cni.BandWidth.                                         *)
(* A payload is the []byte json.Marshal returns: a JSON object listing the *)
(* struct's fields in declaration order, the JSON literal null for a nil   *)
(* pointer, or the nil slice that comes with an error.                     *)

JsonObject(members) == [kind |-> "object", members |-> members]
JsonNull == [kind |-> "null", members |-> << >>]
NilBytes == [kind |-> "nil", members |-> << >>]

\* json.Marshal(b) for b a cni.BandWidth value.
MarshalBandwidth(b) ==
    JsonObject(<< <<"IngressRate", b.IngressRate>>,
                  <<"IngressBurst", b.IngressBurst>>,
                  <<"EgressRate", b.EgressRate>>,
                  <<"EgressBurst", b.EgressBurst>> >>)

\* json.Marshal(p) for p a *cni.BandWidth: << >> is the nil pointer, <<b>> points to b.
MarshalBandwidthPtr(p) ==
    IF p = << >> THEN JsonNull ELSE MarshalBandwidth(p[1])

\* The value of member key of a JSON object, 0 when the object has no such member.
Member(members, key) ==
    IF \E k \in 1..Len(members) : members[k][1] = key
    THEN LET k == CHOOSE k \in 1..Len(members) : members[k][1] = key
         IN  members[k][2]
    ELSE 0

\* json.Unmarshal(payload, &b) into a zero cni.BandWidth: what a consumer of the
\* capability decodes.  null (and no bytes at all) leave the zero value.
UnmarshalBandwidth(payload) ==
    IF payload.kind = "object"
    THEN BW(Member(payload.members, "IngressRate"),
            Member(payload.members, "IngressBurst"),
            Member(payload.members, "EgressRate"),
            Member(payload.members, "EgressBurst"))
    ELSE ZeroBandwidth

----------------------------------------------------------------------------
(* The embedded QoS table: CNIQoSConfig.QoS, a map[string]CNIQoSClass.     *)
(* A table is a function on ClassNames; << >> says the key is absent,      *)
(* <<c>> that it maps to the CNIQoSClass c.                                *)

ClassNames == {"slow", "normal", "fast", "gold"}

\* type CNIQoSClass struct { Capacity uint64; Bandwidth *cni.BandWidth }
CNIQoSClass(capacity, bandwidth) == [Capacity |-> capacity, Bandwidth |-> bandwidth]

\* qosconfig := &CNIQoSConfig{}: no QoS map yet.
EmptyQoSConfig == [c \in ClassNames |-> << >>]

\* A table with the single class c.
OneClass(c, class) == [k \in ClassNames |-> IF k = c THEN <<class>> ELSE << >>]

\* Two example bandwidths an embedded table may carry.
BandwidthA == BW(1000, 2000, 0, 0)
BandwidthB == BW(3000, 4000, 500, 600)

(* A NetworkConf document.  valid: the text is well-formed JSON;          *)
(* hasqos: the object has a "qos" member; qos: that member.                *)
Conf(valid, hasqos, qos) == [valid |-> valid, hasqos |-> hasqos, qos |-> qos]

BadJSON == Conf(FALSE, FALSE, EmptyQoSConfig)
NoQoS   == Conf(TRUE, FALSE, EmptyQoSConfig)
FastA   == Conf(TRUE, TRUE, OneClass("fast", CNIQoSClass(0, <<BandwidthA>>)))
FastB   == Conf(TRUE, TRUE, OneClass("fast", CNIQoSClass(2, <<BandwidthB>>)))
GoldA   == Conf(TRUE, TRUE, OneClass("gold", CNIQoSClass(0, <<BandwidthA>>)))

(* json.Unmarshal([]byte(config.NetworkConf), &qosconfig).  A syntax error *)
(* is found before anything is stored.  A document without "qos" leaves    *)
(* the QoS field as it was.  A "qos" object is decoded into the map that   *)
(* is already there: its keys are set, the map's other keys are kept.      *)
Unmarshal(conf, qosconfig) ==
    [err |-> ~conf.valid,
     qosconfig |->
        IF conf.valid /\ conf.hasqos
        THEN [c \in ClassNames |->
                 IF conf.qos[c] # << >> THEN conf.qos[c] ELSE qosconfig[c]]
        ELSE qosconfig]

\* qosconfig.QoS[qosclass].Bandwidth: a missing key gives the zero CNIQoSClass,
\* whose Bandwidth is the nil pointer.
LookupBandwidth(qosconfig, qosclass) ==
    IF qosclass \in ClassNames /\ qosconfig[qosclass] # << >>
    THEN qosconfig[qosclass][1].Bandwidth
    ELSE << >>

----------------------------------------------------------------------------
(* The pod's QoS class.                                                    *)
(* Labels and Annotations are map[string]string: functions on the set of   *)
(* their keys.                                                             *)

\* The loops of the static build: for k, value := range m { if k == "net" { qos = value } }
ScanNet(m, qos) ==
    IF QoSResourceNet \in DOMAIN m THEN m[QoSResourceNet] ELSE qos

\* m[key] of a Go map: the zero string when the key is missing.
MapGet(m, key) ==
    IF key \in DOMAIN m THEN m[key] ELSE ""

\* Mutant of QoSClassOf: the class is taken from the package variable cfg once
\* Configure has stored one.
QoSClassFromCfg(v, p) ==
    IF cfg.CfgParam1 # ""
    THEN cfg.CfgParam1
    ELSE IF v = "static"
         THEN ScanNet(p.Annotations, ScanNet(p.Labels, ""))
         ELSE MapGet(p.Annotations, QoSResourceNet)

\* static: var qos string, then the scan of pod.Labels, then of pod.Annotations.
\* embedded: qosclass := pod.Annotations[QoSResourceNet].
QoSClassOf(v, p) ==
    IF v = "static"
    THEN ScanNet(p.Annotations, ScanNet(p.Labels, ""))
    ELSE MapGet(p.Annotations, QoSResourceNet)

\* Mutant of NoClassDeclared: the early return is never taken.
NoClassDeclaredNever(qosclass) == FALSE

\* embedded: if len(qosclass) == 0 { return nil, nil }
NoClassDeclared(qosclass) == qosclass = ""

----------------------------------------------------------------------------
(* The frame of one PreSetupNetwork call.                                  *)
(*   pc        "idle" before the call, "loop" inside it, "done" after it   *)
(*   i         index of the config the loop handles next                   *)
(*   qos       the local qos (static) or qosclass (embedded)               *)
(*   heap      the caps maps the call has made: heap[r] is the value under *)
(*             the key "bandwidth" of the map with reference r             *)
(*   caps      the reference the local caps holds                          *)
(*   qosconfig the QoS table of the local qosconfig (embedded)             *)
(*   cnicaps   the local cnicaps; Capabilities is a reference into heap,   *)
(*             as a Go map value is                                        *)
(*   reply     what the call returned, read when the reply is encoded      *)

NilReply == [nil |-> TRUE, caps |-> << >>]

IdleFrame ==
    [pc |-> "idle", i |-> 0, qos |-> "", heap |-> << >>, caps |-> 0,
     qosconfig |-> EmptyQoSConfig, cnicaps |-> << >>, reply |-> NilReply]

\* The prologue of the static build, up to the loop over cniconfigs.
StaticEnter(f, p) ==
    [f EXCEPT !.pc = "loop", !.i = 1, !.qos = QoSClassOf("static", p)]

\* The prologue of the embedded build: caps and qosconfig are made once per call.
EmbeddedEnter(f, p) ==
    LET qosclass == QoSClassOf("embedded", p)
    IN  IF NoClassDeclared(qosclass)
        THEN [f EXCEPT !.pc = "done", !.qos = qosclass, !.heap = <<NilBytes>>,
                       !.caps = 1, !.reply = NilReply]
        ELSE [f EXCEPT !.pc = "loop", !.i = 1, !.qos = qosclass,
                       !.heap = <<NilBytes>>, !.caps = 1]

\* One iteration of the static build's loop; fail: json.Marshal returns an error.
StaticIter(f, config, fail) ==
    LET ref == Len(f.heap) + 1
        bandwidth == IF f.qos \in DOMAIN qosbandwidth
                     THEN qosbandwidth[f.qos]
                     ELSE DefaultBandwidth
    IN  IF fail
        THEN [f EXCEPT !.pc = "done", !.heap = Append(@, NilBytes), !.caps = ref,
                       !.reply = NilReply]
        ELSE [f EXCEPT !.heap = Append(@, MarshalBandwidth(bandwidth)),
                       !.caps = ref,
                       !.cnicaps = Append(@, [Name |-> config.Name,
                                              Capabilities |-> ref]),
                       !.i = @ + 1]

\* One iteration of the embedded build's loop.
EmbeddedIter(f, config, fail) ==
    IF config.Name = Loopback
    THEN [f EXCEPT !.i = @ + 1]
    ELSE LET u == Unmarshal(config.NetworkConf, f.qosconfig)
         IN  IF u.err
             THEN [f EXCEPT !.i = @ + 1]
             ELSE IF fail
                  THEN [f EXCEPT !.qosconfig = u.qosconfig,
                                 !.heap[f.caps] = NilBytes,
                                 !.i = @ + 1]
                  ELSE [f EXCEPT !.qosconfig = u.qosconfig,
                                 !.heap[f.caps] =
                                     MarshalBandwidthPtr(
                                         LookupBandwidth(u.qosconfig, f.qos)),
                                 !.cnicaps = Append(@, [Name |-> config.Name,
                                                        Capabilities |-> f.caps]),
                                 !.i = @ + 1]

\* return cnicaps, nil: the reply carries, for every entry, what its map holds now.
ReplyOf(f) ==
    [nil |-> FALSE,
     caps |-> [k \in 1..Len(f.cnicaps) |->
                  [Name |-> f.cnicaps[k].Name,
                   Capabilities |-> [bandwidth |-> f.heap[f.cnicaps[k].Capabilities]]]]]

\* The frame after return cnicaps, nil.
ReturnCaps(f) == [f EXCEPT !.pc = "done", !.reply = ReplyOf(f)]

----------------------------------------------------------------------------
(* The hooks.                                                              *)

Sandboxes == DOMAIN frame

\* Configure: an empty document returns at once; otherwise yaml.Unmarshal stores
\* the document's cfgParam1 in cfg, or fails and stores nothing.
Configure(doc) ==
    /\ cfg' = IF doc.text = "ok" THEN [CfgParam1 |-> doc.cfgParam1] ELSE cfg
    /\ UNCHANGED <<variant, cniconfigs, encfail, pod, frame>>

PreSetupNetworkEnter(s) ==
    /\ frame[s].pc = "idle"
    /\ frame' = [frame EXCEPT ![s] = IF variant = "static"
                                     THEN StaticEnter(@, pod[s])
                                     ELSE EmbeddedEnter(@, pod[s])]
    /\ UNCHANGED <<variant, cfg, cniconfigs, encfail, pod>>

PreSetupNetworkLoop(s) ==
    /\ frame[s].pc = "loop"
    /\ frame[s].i <= Len(cniconfigs)
    /\ LET i == frame[s].i
       IN  frame' = [frame EXCEPT ![s] =
                        IF variant = "static"
                        THEN StaticIter(@, cniconfigs[i], i \in encfail)
                        ELSE EmbeddedIter(@, cniconfigs[i], i \in encfail)]
    /\ UNCHANGED <<variant, cfg, cniconfigs, encfail, pod>>

PreSetupNetworkReturn(s) ==
    /\ frame[s].pc = "loop"
    /\ frame[s].i > Len(cniconfigs)
    /\ frame' = [frame EXCEPT ![s] = ReturnCaps(@)]
    /\ UNCHANGED <<variant, cfg, cniconfigs, encfail, pod>>

\* PostSetupNetwork logs the results and returns; it touches no state.
PostSetupNetwork(s) ==
    /\ s \in Sandboxes
    /\ UNCHANGED vars

\* Synchronize, Shutdown, RunPodSandbox, StopPodSandbox, RemovePodSandbox,
\* NetworkConfigurationChanged, PreNetworkDeleted, PostNetworkDeleted: each logs
\* a line and returns.
Notification(s) ==
    /\ s \in Sandboxes
    /\ UNCHANGED vars

----------------------------------------------------------------------------
(* Inputs.                                                                 *)

\* Configuration documents the runtime may pass to Configure.
ConfigDocs ==
    {[text |-> "empty", cfgParam1 |-> ""],
     [text |-> "bad", cfgParam1 |-> ""],
     [text |-> "ok", cfgParam1 |-> "a"]}

LabelMaps == {[app |-> "web"], [app |-> "web", net |-> "slow"]}

AnnotationMaps ==
    {[owner |-> "ops"],
     [owner |-> "ops", net |-> ""],
     [owner |-> "ops", net |-> "fast"],
     [owner |-> "ops", net |-> "normal"],
     [owner |-> "ops", net |-> "gold"]}

PodSandbox(labels, annotations) == [Labels |-> labels, Annotations |-> annotations]

Pods == {PodSandbox(l, a) : l \in LabelMaps, a \in AnnotationMaps}

CNIConfig(name, conf) == [Name |-> name, NetworkConf |-> conf]

\* The name of the network at position j of the list, when it is not the loopback.
EthNames == <<"eth1", "eth2", "eth3", "eth4", "eth5", "eth6">>

\* The NetworkConf documents of the inputs: one that is not JSON, one without a
\* "qos" member, and three with a one-class table.  Documents that are JSON but
\* no object of this shape (null, a "qos" of another type) are not among them.
Blobs == {BadJSON, NoQoS, FastA, FastB, GoldA}

\* What a position of the list holds: the loopback network or a network with conf.
Slots(blobs) ==
    {[loop |-> FALSE, conf |-> b] : b \in blobs} \cup {[loop |-> TRUE, conf |-> NoQoS]}

\* The lists of k configs: names are distinct, at most one is the loopback.
ListsOfLen(blobs, k) ==
    {[j \in 1..k |-> CNIConfig(IF c[j].loop THEN Loopback ELSE EthNames[j], c[j].conf)] :
        c \in {d \in [1..k -> Slots(blobs)] :
                  Cardinality({j \in 1..k : d[j].loop}) <= 1}}

ConfigLists(blobs) == UNION {ListsOfLen(blobs, k) : k \in 0..MaxConfigs}

InitWith(sandboxes, pods, lists, fails) ==
    /\ variant \in {"static", "embedded"}
    /\ cfg = [CfgParam1 |-> ""]
    /\ cniconfigs \in lists
    /\ encfail \in fails
    /\ pod \in [sandboxes -> pods]
    /\ frame = [s \in sandboxes |-> IdleFrame]

\* One pod sandbox, every pod and every config list, json.Marshal never fails
\* (it cannot, on a struct of four uint64).
Init == InitWith({"s1"}, Pods, ConfigLists(Blobs), {{}})

Next ==
    \/ \E doc \in ConfigDocs : Configure(doc)
    \/ \E s \in Sandboxes : PreSetupNetworkEnter(s)
    \/ \E s \in Sandboxes : PreSetupNetworkLoop(s)
    \/ \E s \in Sandboxes : PreSetupNetworkReturn(s)
    \/ \E s \in Sandboxes : PostSetupNetwork(s)
    \/ \E s \in Sandboxes : Notification(s)

Spec == Init /\ [][Next]_vars

\* Two pod sandboxes whose hooks interleave.
HookPods ==
    {PodSandbox([app |-> "web"], [owner |-> "ops"]),
     PodSandbox([app |-> "web", net |-> "slow"], [owner |-> "ops"]),
     PodSandbox([app |-> "web"], [owner |-> "ops", net |-> "fast"])}

InitHooks == InitWith({"s1", "s2"}, HookPods, ConfigLists({BadJSON, FastA, GoldA}), {{}})

SpecHooks == InitHooks /\ [][Next]_vars

\* One pod sandbox; json.Marshal reports an error for the configs at the indices
\* of encfail.  cni.BandWidth as it stands cannot make json.Marshal fail: this
\* specification is the program with an encoder that can.
FaultPods ==
    {PodSandbox([app |-> "web"], [owner |-> "ops"]),
     PodSandbox([app |-> "web"], [owner |-> "ops", net |-> "fast"])}

InitFault ==
    InitWith({"s1"}, FaultPods, ConfigLists({BadJSON, FastA, FastB}),
             SUBSET (1..MaxConfigs) \ {{}})

SpecFault == InitFault /\ [][Next]_vars

----------------------------------------------------------------------------
(* Vocabulary of the properties.                                           *)

Done(s) == frame[s].pc = "done"

\* The entries of the reply of sandbox s's call.
Entries(s) == frame[s].reply.caps

\* The positions of the reply's entries named name.
EntriesNamed(s, name) == {k \in 1..Len(Entries(s)) : Entries(s)[k].Name = name}

\* The positions of the config list that are not the loopback network.
NonLoopback == {j \in 1..Len(cniconfigs) : cniconfigs[j].Name # Loopback}

\* The bandwidth an entry's "bandwidth" payload decodes to.
Decoded(entry) == UnmarshalBandwidth(entry.Capabilities.bandwidth)

\* The class a pod declares: the annotation "net" if there is one, otherwise the
\* label "net" if there is one, otherwise none (the empty string).
DeclaredClass(p) ==
    IF QoSResourceNet \in DOMAIN p.Annotations THEN p.Annotations[QoSResourceNet]
    ELSE IF QoSResourceNet \in DOMAIN p.Labels THEN p.Labels[QoSResourceNet]
    ELSE ""

DeclaresNoClass(p) ==
    /\ QoSResourceNet \notin DOMAIN p.Annotations
    /\ QoSResourceNet \notin DOMAIN p.Labels

\* The bandwidth class names in conf's own embedded table: the nil pointer when
\* conf has no table or the table has no such class.
OwnBandwidth(conf, class) ==
    IF conf.valid /\ conf.hasqos /\ class \in ClassNames /\ conf.qos[class] # << >>
    THEN conf.qos[class][1].Bandwidth
    ELSE << >>

\* The frame of a call that runs from position j of the list to its end with no
\* other hook in between.
RECURSIVE RunAlone(_, _)
RunAlone(f, j) ==
    IF f.pc = "done" THEN f
    ELSE IF j > Len(cniconfigs) THEN ReturnCaps(f)
    ELSE RunAlone(IF variant = "static"
                  THEN StaticIter(f, cniconfigs[j], j \in encfail)
                  ELSE EmbeddedIter(f, cniconfigs[j], j \in encfail),
                  j + 1)

\* The reply of PreSetupNetwork(p, cniconfigs) made alone.
AloneReply(p) ==
    RunAlone(IF variant = "static"
             THEN StaticEnter(IdleFrame, p)
             ELSE EmbeddedEnter(IdleFrame, p),
             1).reply

\* The fixed values of the static table, as the specification gives them.
FixedValues(class) ==
    CASE class = "fast"   -> BW(1000000, 1500000, 0, 0)
      [] class = "normal" -> BW(500000, 550000, 0, 0)
      [] class = "slow"   -> BW(100000, 150000, 0, 0)

----------------------------------------------------------------------------
(* C1: in the static build, when the pod's class is "slow", "normal" or    *)
(* "fast", the reply holds, for every non-loopback config, exactly one     *)
(* entry with the config's name, and its "bandwidth" payload decodes to    *)
(* the fixed values of that class.                                         *)
C1_StaticTableBandwidth ==
    \A s \in Sandboxes :
        (/\ variant = "static"
         /\ Done(s)
         /\ DeclaredClass(pod[s]) \in {"slow", "normal", "fast"})
        => /\ ~frame[s].reply.nil
           /\ \A j \in NonLoopback :
                 /\ Cardinality(EntriesNamed(s, cniconfigs[j].Name)) = 1
                 /\ \A k \in EntriesNamed(s, cniconfigs[j].Name) :
                       Decoded(Entries(s)[k]) = FixedValues(DeclaredClass(pod[s]))

C1_Witness ==
    \E s \in Sandboxes :
        /\ variant = "static"
        /\ Done(s)
        /\ DeclaredClass(pod[s]) = "fast"
        /\ Cardinality(NonLoopback) >= 2
        /\ \E j \in 1..Len(cniconfigs) : cniconfigs[j].Name = Loopback
        /\ \E k \in 1..Len(Entries(s)) :
              /\ Entries(s)[k].Name = "eth1"
              /\ Decoded(Entries(s)[k]) = BW(1000000, 1500000, 0, 0)

(* C2: no entry of a reply is named "cni-loopback", in either build.      *)
C2_NoLoopbackEntry ==
    \A s \in Sandboxes :
        Done(s) => EntriesNamed(s, Loopback) = {}

(* C3: in the embedded build, when the pod declares a class that the       *)
(* embedded table of a config does not hold, the reply has no entry named  *)
(* after that config.                                                      *)
C3_UnknownClassSkipped ==
    \A s \in Sandboxes :
        (variant = "embedded" /\ Done(s) /\ DeclaredClass(pod[s]) # "")
        => \A j \in NonLoopback :
              (/\ cniconfigs[j].NetworkConf.valid
               /\ cniconfigs[j].NetworkConf.hasqos
               /\ cniconfigs[j].NetworkConf.qos[DeclaredClass(pod[s])] = << >>)
              => EntriesNamed(s, cniconfigs[j].Name) = {}

(* C4: in the embedded build, when one non-loopback config is malformed    *)
(* and another holds the pod's class in a valid table, the reply has an    *)
(* entry for the valid config that carries the bandwidth of the valid      *)
(* config's own table, and no entry for the malformed one.                 *)
C4_MalformedSiblingIsolated ==
    \A s \in Sandboxes :
        (variant = "embedded" /\ Done(s) /\ frame[s].qos # "")
        => \A b, g \in NonLoopback :
              (/\ ~cniconfigs[b].NetworkConf.valid
               /\ OwnBandwidth(cniconfigs[g].NetworkConf, frame[s].qos) # << >>)
              => /\ EntriesNamed(s, cniconfigs[b].Name) = {}
                 /\ \E k \in EntriesNamed(s, cniconfigs[g].Name) :
                       Entries(s)[k].Capabilities.bandwidth =
                           MarshalBandwidthPtr(
                               OwnBandwidth(cniconfigs[g].NetworkConf, frame[s].qos))

(* C5: once a call has resolved the pod's class, the class is the value of *)
(* the annotation "net" if there is one, otherwise that of the label "net" *)
(* if there is one, otherwise none.                                        *)
C5_ClassFromLabelsThenAnnotations ==
    \A s \in Sandboxes :
        frame[s].pc # "idle" => frame[s].qos = DeclaredClass(pod[s])

(* C6: for a pod with neither a "net" label nor a "net" annotation, one    *)
(* call treats all non-loopback configs alike: in the static build each    *)
(* gets one entry that decodes to the default bandwidth, in the embedded   *)
(* build none gets an entry.                                               *)
C6_NoClassOnePolicy ==
    \A s \in Sandboxes :
        (Done(s) /\ DeclaresNoClass(pod[s]))
        => /\ variant = "static" =>
                 \A j \in NonLoopback :
                    /\ Cardinality(EntriesNamed(s, cniconfigs[j].Name)) = 1
                    /\ \A k \in EntriesNamed(s, cniconfigs[j].Name) :
                          Decoded(Entries(s)[k]) = BW(450000, 1000000, 600000, 800000)
           /\ variant = "embedded" =>
                 \A j \in NonLoopback : EntriesNamed(s, cniconfigs[j].Name) = {}

C6_Witness ==
    \E s \in Sandboxes :
        /\ Done(s)
        /\ DeclaresNoClass(pod[s])
        /\ variant = "static"
        /\ Cardinality(NonLoopback) >= 2
        /\ \A j \in NonLoopback : EntriesNamed(s, cniconfigs[j].Name) # {}

C8_RepliesDependOnInputsOnly ==
    /\ \A s, t \in Sandboxes :
          (Done(s) /\ Done(t) /\ pod[s] = pod[t])
          => frame[s].reply = frame[t].reply
    /\ \A s \in Sandboxes :
          Done(s) => frame[s].reply = AloneReply(pod[s])

C8_Witness ==
    /\ cfg.CfgParam1 = "a"
    /\ Done("s1") /\ Done("s2")
    /\ pod["s1"] = pod["s2"]
    /\ ~frame["s1"].reply.nil
    /\ Len(Entries("s1")) >= 2

(* C9: in the embedded build, every entry of the reply carries the         *)
(* encoding of the bandwidth that the pod's class has in the embedded      *)
(* table of the config the entry is named after.                           *)
C9_EntryHoldsOwnPayload ==
    \A s \in Sandboxes :
        (variant = "embedded" /\ Done(s))
        => \A k \in 1..Len(Entries(s)) :
              \A j \in 1..Len(cniconfigs) :
                 cniconfigs[j].Name = Entries(s)[k].Name
                 => Entries(s)[k].Capabilities.bandwidth =
                        MarshalBandwidthPtr(
                            OwnBandwidth(cniconfigs[j].NetworkConf, frame[s].qos))

(* C10: in the embedded build, the bandwidth resolved for a config is the  *)
(* one the pod's class has in that config's own table, whatever configs    *)
(* precede it: right after the loop has handled a config that parses, the  *)
(* payload it wrote is the encoding of that bandwidth.                     *)
C10_ResolvedFromOwnBlob ==
    \A s \in Sandboxes :
        (/\ variant = "embedded"
         /\ frame[s].pc = "loop"
         /\ frame[s].i > 1
         /\ cniconfigs[frame[s].i - 1].Name # Loopback
         /\ cniconfigs[frame[s].i - 1].NetworkConf.valid)
        => frame[s].heap[frame[s].caps] =
               MarshalBandwidthPtr(
                   OwnBandwidth(cniconfigs[frame[s].i - 1].NetworkConf, frame[s].qos))

====
